---- MODULE Spec2Model ----
(***************************************************************************)
(* Ledger data layer of src/main.py: the Customers and Transactions tables *)
(* of database.db, the handlers add_customer, update_customer,             *)
(* delete_customer and transact that write them, the start of the process  *)
(* (CREATE_DEFAULT_TABLES) and the listings display_customers and          *)
(* display_transactions that read them.                                    *)
(*                                                                         *)
(* Texts are sequences of one-character strings.  Floating-point numbers   *)
(* are modelled by integers (every value the model reaches is a small      *)
(* integer, which a double represents exactly).                            *)
(***************************************************************************)
EXTENDS Integers, Sequences, FiniteSets, TLC

VARIABLES
    Customers,        \* rows of table Customers, in rowid (insertion) order
    Transactions,     \* rows of table Transactions, in rowid (insertion) order
    sqlite_sequence,  \* AUTOINCREMENT counter of Transactions (sqlite_sequence.seq)
    pc,               \* position of the single control thread
    local,            \* add_customer's locals (account, name, balance) while it loops
    returned,         \* what the last finished call delivered to its caller
    log,              \* the records the current / last call emitted through logger
    ledger,           \* history: per stored account, what its callers passed
    calls,            \* how many calls the process has made so far
    sqlite_master,    \* the tables database.db holds (sqlite_master.name)
    customer_tree,    \* the rows the Customers pane shows
    transaction_tree, \* the rows the Transactions pane shows
    query,            \* the last SELECT a listing executed: its text and values
    db_connection     \* transact's connection while it runs statement by statement

vars ==
    <<Customers, Transactions, sqlite_sequence, pc, local, returned, log, ledger, calls,
      sqlite_master, customer_tree, transaction_tree, query, db_connection>>

\* what the handlers of the data layer leave alone
panes == <<sqlite_master, customer_tree, transaction_tree, query, db_connection>>

store == <<Customers, Transactions, sqlite_sequence>>

-----------------------------------------------------------------------------
(* Bounds of the model *)

\* the menus make at most this many handler calls
MaxCalls == 2

-----------------------------------------------------------------------------
(* Texts *)

Repeat(c, n) == [i \in 1..n |-> c]

Digits == <<"0", "1", "2", "3", "4", "5", "6", "7", "8", "9">>

IsDigit(c) == \E i \in 1..Len(Digits) : Digits[i] = c

DigitValue(c) == (CHOOSE i \in 1..Len(Digits) : Digits[i] = c) - 1

RECURSIVE DecimalValue(_)
\* the number a string of decimal digits denotes ("" denotes 0)
DecimalValue(s) ==
    IF s = <<>> THEN 0
    ELSE 10 * DecimalValue(SubSeq(s, 1, Len(s) - 1)) + DigitValue(s[Len(s)])

-----------------------------------------------------------------------------
(* Python values that cross the handlers' parameters *)

PyFloat(n) == [t |-> "float", v |-> n, s |-> <<>>]
PyStr(s) == [t |-> "str", v |-> 0, s |-> s]

\* the DC argument is written as a string: a text of one character is that
\* character, and this is Python's None, which sqlite3 binds as NULL
PyNone == "None"

\* float(text) accepts a digit string in which single underscores separate
\* digits ("1_0" is 10.0).  Fragment: texts over digits, "_" and letters that
\* occur in no numeric literal; signs, points, exponents, blanks, "inf" and
\* "nan" are outside the texts the model draws.
PyIsFloatLiteral(s) ==
    /\ Len(s) > 0
    /\ \A i \in 1..Len(s) :
          \/ IsDigit(s[i])
          \/ /\ s[i] = "_"
             /\ 1 < i
             /\ i < Len(s)
             /\ IsDigit(s[i - 1])
             /\ IsDigit(s[i + 1])

\* float(x) raises neither TypeError nor ValueError
FloatConvertible(x) == x.t = "float" \/ (x.t = "str" /\ PyIsFloatLiteral(x.s))

\* float(x), for a convertible x
FloatOf(x) == IF x.t = "float" THEN x.v ELSE DecimalValue(SelectSeq(x.s, IsDigit))

-----------------------------------------------------------------------------
(* SQLite values *)

Real(n) == [cls |-> "real", v |-> n, s |-> <<>>]
Text(s) == [cls |-> "text", v |-> 0, s |-> s]

\* sqlite3 binds a Python float as REAL and a Python str as TEXT
Bind(x) == IF x.t = "float" THEN Real(x.v) ELSE Text(x.s)

\* a text that is a well-formed numeric literal (fragment: all digits)
LooksNumeric(s) == Len(s) > 0 /\ \A i \in 1..Len(s) : IsDigit(s[i])

\* length of the longest prefix of s that is a numeric literal
NumericPrefixLen(s) ==
    CHOOSE k \in 0..Len(s) :
        /\ \A i \in 1..k : IsDigit(s[i])
        /\ (k < Len(s) => ~IsDigit(s[k + 1]))

\* the operand of an arithmetic operator: a TEXT is read up to the end of its
\* longest numeric prefix, and as 0 when it has none
ToNumeric(x) ==
    IF x.cls = "real" THEN x.v
    ELSE DecimalValue(SubSeq(x.s, 1, NumericPrefixLen(x.s)))

\* a column declared DOUBLE has REAL affinity: a TEXT that is a well-formed
\* number is stored as REAL, any other TEXT is stored as it is
RealAffinity(x) ==
    IF x.cls = "text" /\ LooksNumeric(x.s) THEN Real(DecimalValue(x.s)) ELSE x

-----------------------------------------------------------------------------
(* Program constants *)

\* len(name) > 30 is rejected
MaxNameLen == 30

\* random.choices(characters, k=15)
AccountNumberLength == 15

\* string.ascii_uppercase + string.digits
characters ==
    {"A", "B", "C", "D", "E", "F", "G", "H", "I", "J", "K", "L", "M",
     "N", "O", "P", "Q", "R", "S", "T", "U", "V", "W", "X", "Y", "Z",
     "0", "1", "2", "3", "4", "5", "6", "7", "8", "9"}

\* a connection that enforces FOREIGN KEY clauses
foreign_keys_on == TRUE

\* PRAGMA foreign_keys: the handlers never set it, so every connection runs
\* with SQLite's default, under which FOREIGN KEY clauses are not enforced
foreign_keys == FALSE

-----------------------------------------------------------------------------
(* Inputs the model draws *)

\* the characters the model lets random.choices draw
SampledCharacters == {"A", "9"}

\* an identifier no generated account carries (14 characters)
UnknownAccount == <<"U", "N", "K", "N", "O", "W", "N", "0", "0", "0", "0", "0", "0", "A">>

\* names: "", one of exactly 30 characters, one of 31, and a non-string
NameInputs ==
    {PyStr(<<>>), PyStr(Repeat("x", MaxNameLen)), PyStr(Repeat("x", MaxNameLen + 1)),
     PyFloat(7)}

\* initial balances: the default 0.0, a non-zero float, a text float() rejects
BalanceInputs == {PyFloat(0), PyFloat(5), PyStr(<<"x">>)}

\* amounts as the Entry widget delivers them: "5", "1_0", "x"
AmountInputs == {PyStr(<<"5">>), PyStr(<<"1", "_", "0">>), PyStr(<<"x">>)}

DateInputs == {[year |-> 2024, month |-> 1, day |-> 1]}

\* DC: 'D', 'C', a text that is neither, and None
DCInputs == {"D", "C", "X", PyNone}

\* where a connection can raise sql.Error: not at all, when it is opened, at
\* a statement, at the commit
Faults == {"none", "connect", "execute", "commit"}
TransactFaults == {"none", "connect", "update", "insert", "commit"}

-----------------------------------------------------------------------------
(* Identifier generator *)

\* k one short
generate_fourteen_characters ==
    {Repeat(c, AccountNumberLength - 1) : c \in SampledCharacters \cap characters}

\* the identifiers generate_random_account_number can return: k characters,
\* each drawn from characters (the model draws the k characters alike)
generate_random_account_number ==
    {Repeat(c, AccountNumberLength) : c \in SampledCharacters \cap characters}

AccountInputs == generate_random_account_number \cup {UnknownAccount}

-----------------------------------------------------------------------------
(* Validation *)

\* the length test off by one
validate_customer_name_off_by_one(name) ==
    IF name.t # "str" THEN "TypeError"
    ELSE IF Len(name.s) > MaxNameLen + 1 THEN "ValueError"
    ELSE "ok"

\* validate_customer_name: "TypeError", "ValueError" or "ok"
validate_customer_name(name) ==
    IF name.t # "str" THEN "TypeError"
    ELSE IF Len(name.s) > MaxNameLen THEN "ValueError"
    ELSE "ok"

\* validate_amount: "TypeError" or "ok"; the converted value is dropped
validate_amount(amount) == IF FloatConvertible(amount) THEN "ok" ELSE "TypeError"

-----------------------------------------------------------------------------
(* The store: statements run on a connection's working copy *)

database ==
    [Customers |-> Customers, Transactions |-> Transactions,
     sqlite_sequence |-> sqlite_sequence]

RowExists(rows, account) == \E i \in 1..Len(rows) : rows[i].account = account

\* a check that finds every identifier in use
account_always_exists(account) == TRUE

\* SELECT 1 FROM Customers WHERE account = ?
account_exists(account) == RowExists(Customers, account)

Done(db) == [ok |-> TRUE, db |-> db]
Raised(db) == [ok |-> FALSE, db |-> db]

\* the INSERT leaves the balance to a column default of 0.0
ExecInsertCustomerDefaultBalance(db, account, name, balance) ==
    IF RowExists(db.Customers, account)
    THEN Raised(db)
    ELSE Done([db EXCEPT !.Customers =
                 Append(@, [account |-> account, name |-> name.s, balance |-> Real(0)])])

\* INSERT INTO Customers (account, name, balance) VALUES (?, ?, ?)
ExecInsertCustomer(db, account, name, balance) ==
    IF RowExists(db.Customers, account)
    THEN Raised(db)      \* PRIMARY KEY: IntegrityError
    ELSE Done([db EXCEPT !.Customers =
                 Append(@, [account |-> account,
                            name |-> name.s,
                            balance |-> RealAffinity(Bind(balance))])])

\* the UPDATE without its WHERE clause
ExecUpdateNameNoWhere(db, new_name, account) ==
    Done([db EXCEPT !.Customers =
            [i \in 1..Len(@) |-> [@[i] EXCEPT !.name = new_name.s]]])

\* an UPDATE that sets the balance along with the name
ExecUpdateNameAndBalance(db, new_name, account) ==
    Done([db EXCEPT !.Customers =
            [i \in 1..Len(@) |->
                IF @[i].account = account
                THEN [@[i] EXCEPT !.name = new_name.s, !.balance = Real(0)]
                ELSE @[i]]])

\* UPDATE Customers SET name = ? WHERE account = ?
ExecUpdateName(db, new_name, account) ==
    Done([db EXCEPT !.Customers =
            [i \in 1..Len(@) |->
                IF @[i].account = account
                THEN [@[i] EXCEPT !.name = new_name.s]
                ELSE @[i]]])

\* some Transactions row references the account
Referenced(db, account) == RowExists(db.Transactions, account)

\* a DELETE that takes the account's Transactions rows with it
ExecDeleteCustomerCascade(db, account) ==
    Done([db EXCEPT !.Customers = SelectSeq(@, LAMBDA row : row.account # account),
                    !.Transactions = SelectSeq(@, LAMBDA row : row.account # account)])

\* DELETE FROM Customers WHERE account = ?
ExecDeleteCustomer(db, account) ==
    IF foreign_keys /\ RowExists(db.Customers, account) /\ Referenced(db, account)
    THEN Raised(db)
    ELSE Done([db EXCEPT !.Customers =
                 SelectSeq(@, LAMBDA row : row.account # account)])

\* balance + ? or balance - ?
Arith(operator, balance, amount) ==
    IF operator = "+"
    THEN Real(ToNumeric(balance) + ToNumeric(amount))
    ELSE Real(ToNumeric(balance) - ToNumeric(amount))

\* UPDATE Customers SET balance = balance {operator} ? WHERE account = ?
ExecUpdateBalance(db, operator, amount, account) ==
    Done([db EXCEPT !.Customers =
            [i \in 1..Len(@) |->
                IF @[i].account = account
                THEN [@[i] EXCEPT !.balance = Arith(operator, @, Bind(amount))]
                ELSE @[i]]])

MaxOf(a, b) == IF a > b THEN a ELSE b

LargestNumber(rows) ==
    IF rows = <<>> THEN 0
    ELSE CHOOSE n \in {rows[i].number : i \in 1..Len(rows)} :
            \A i \in 1..Len(rows) : rows[i].number <= n

\* the largest number in use, handed out again
LastNumber(db) == MaxOf(db.sqlite_sequence, LargestNumber(db.Transactions))

\* number INTEGER PRIMARY KEY AUTOINCREMENT: one more than the largest number
\* the table ever held
NextNumber(db) == MaxOf(db.sqlite_sequence, LargestNumber(db.Transactions)) + 1

RECURSIVE DecimalDigits(_, _)
\* n written in decimal, padded with zeros to at least width characters
DecimalDigits(n, width) ==
    IF n < 10 /\ width <= 1 THEN <<Digits[n + 1]>>
    ELSE Append(DecimalDigits(n \div 10, width - 1), Digits[(n % 10) + 1])

\* sqlite3's adapter stores a datetime.date as its isoformat, YYYY-MM-DD
AdaptDate(date) ==
    DecimalDigits(date.year, 4) \o <<"-">> \o DecimalDigits(date.month, 2)
        \o <<"-">> \o DecimalDigits(date.day, 2)

\* INSERT INTO Transactions (account, date, amount, DC) VALUES (?, ?, ?, ?)
\* A CHECK constraint rejects a row for which its expression is false; for a
\* NULL the expression DC IN ('D', 'C') is NULL, not false, and the row passes.
ExecInsertTransaction(db, account, date, amount, DC) ==
    IF DC # PyNone /\ DC \notin {"D", "C"}
    THEN Raised(db)      \* CHECK(DC IN ('D', 'C')): IntegrityError
    ELSE IF foreign_keys /\ ~RowExists(db.Customers, account)
    THEN Raised(db)      \* FOREIGN KEY, when enforced
    ELSE Done([db EXCEPT
                 !.Transactions =
                     Append(@, [number |-> NextNumber(db),
                                account |-> account,
                                date |-> AdaptDate(date),
                                amount |-> RealAffinity(Bind(amount)),
                                DC |-> DC]),
                 !.sqlite_sequence = NextNumber(db)])

\* db_connection.commit(): the working copy becomes the stored state
Commit(working) == working

\* a rollback that drops nothing
RollbackKeepsWorking(stored, working) == working

\* a rollback that leaves the AUTOINCREMENT counter where the INSERT put it
RollbackKeepsSequence(stored, working) ==
    [stored EXCEPT !.sqlite_sequence = working.sqlite_sequence]

\* db_connection.rollback(): the working copy is dropped
Rollback(stored, working) == stored

\* a statement, unless the connection raises at this point
Step(fails, db, result) == IF fails THEN Raised(db) ELSE result

\* the rest of a try block runs only if nothing raised so far
Then(before, result) == IF before.ok THEN result ELSE before

\* the except branch without its rollback(): the with block commits on exit
FinishNoRollback(stored, last, commitFails) ==
    IF last.ok /\ ~commitFails THEN Done(last.db) ELSE Raised(last.db)

\* try: ...; commit()  except sql.Error: rollback()
Finish(stored, last, commitFails) ==
    IF last.ok /\ ~commitFails THEN Done(Commit(last.db))
    ELSE Raised(Rollback(stored, last.db))

-----------------------------------------------------------------------------
(* The schema: CREATE_DEFAULT_TABLES *)

\* the tables and indexes of the schema, in the order their statements run
schema ==
    <<"Customers", "idx_customers_account", "idx_customers_name",
      "Transactions", "idx_transactions_number", "idx_transactions_account">>

objects == {schema[i] : i \in 1..Len(schema)}

\* a CREATE TABLE that replaces the table it finds
ExecCreateTableAnew(state, name) ==
    [master |-> state.master \cup {name},
     db |-> IF name = "Transactions"
            THEN [state.db EXCEPT ![name] = <<>>, !.sqlite_sequence = 0]
            ELSE [state.db EXCEPT ![name] = <<>>]]

\* CREATE TABLE IF NOT EXISTS name: a table that exists is left as it is, a
\* new table is empty (and the counter of a new AUTOINCREMENT table unset)
ExecCreateTable(state, name) ==
    IF name \in state.master THEN state
    ELSE [master |-> state.master \cup {name},
          db |-> IF name = "Transactions"
                 THEN [state.db EXCEPT ![name] = <<>>, !.sqlite_sequence = 0]
                 ELSE [state.db EXCEPT ![name] = <<>>]]

\* CREATE INDEX IF NOT EXISTS name
ExecCreateIndex(state, name) == [state EXCEPT !.master = @ \cup {name}]

\* where CREATE_DEFAULT_TABLES can raise sql.Error: not at all, when the
\* connection is opened, at the first statement, at the statement that
\* creates Transactions, at the commit
StartFaults == {"none", "connect", "customers", "transactions", "commit"}

\* the try block of CREATE_DEFAULT_TABLES on a database file.  sqlite3 opens
\* no transaction for a CREATE statement, so each statement that ran stays.
CREATE_DEFAULT_TABLES(state, fault) ==
    LET customers ==
            ExecCreateIndex(
                ExecCreateIndex(ExecCreateTable(state, schema[1]), schema[2]), schema[3])
        transactions ==
            ExecCreateIndex(
                ExecCreateIndex(ExecCreateTable(customers, schema[4]), schema[5]), schema[6])
    IN  CASE fault = "customers" -> [ok |-> FALSE, state |-> state]
          [] fault = "transactions" -> [ok |-> FALSE, state |-> customers]
          [] fault = "commit" -> [ok |-> FALSE, state |-> transactions]
          [] OTHER -> [ok |-> TRUE, state |-> transactions]

\* the except branch that only logs
carry_on == "idle"

\* exit(1): the process ends
exit == "exited"

-----------------------------------------------------------------------------
(* SELECT: comparison, LIKE and ORDER BY as SQLite evaluates them *)

Uppercase ==
    <<"A", "B", "C", "D", "E", "F", "G", "H", "I", "J", "K", "L", "M",
      "N", "O", "P", "Q", "R", "S", "T", "U", "V", "W", "X", "Y", "Z">>

Lowercase ==
    <<"a", "b", "c", "d", "e", "f", "g", "h", "i", "j", "k", "l", "m",
      "n", "o", "p", "q", "r", "s", "t", "u", "v", "w", "x", "y", "z">>

\* the characters of the texts the model stores, in the order of their codes
ascii == <<"%", "-">> \o Digits \o Uppercase \o <<"_">> \o Lowercase

\* the place of a character in that order
Code(c) == CHOOSE i \in 1..Len(ascii) : ascii[i] = c

\* LIKE does not tell an ASCII letter from the same letter in the other case
Fold(c) ==
    IF \E i \in 1..Len(Uppercase) : Uppercase[i] = c
    THEN Lowercase[CHOOSE i \in 1..Len(Uppercase) : Uppercase[i] = c]
    ELSE c

RECURSIVE like(_, _)
\* text LIKE pattern: "%" stands for any run of characters, "_" for any one
\* character, every other character for itself, letter case aside
like(pattern, text) ==
    IF pattern = <<>> THEN text = <<>>
    ELSE IF pattern[1] = "%"
    THEN \/ like(Tail(pattern), text)
         \/ (text # <<>> /\ like(pattern, Tail(text)))
    ELSE IF text = <<>> THEN FALSE
    ELSE IF pattern[1] = "_" THEN like(Tail(pattern), Tail(text))
    ELSE Fold(pattern[1]) = Fold(text[1]) /\ like(Tail(pattern), Tail(text))

\* the value a column of a row holds
ValueOf(row, column) ==
    CASE column = "number" -> Real(row.number)
      [] column = "account" -> Text(row.account)
      [] column = "name" -> Text(row.name)
      [] column = "date" -> Text(row.date)
      [] column = "balance" -> row.balance
      [] column = "amount" -> row.amount

\* a value as the text LIKE matches: a number is written in decimal
TextOf(x) == IF x.cls = "real" THEN DecimalDigits(x.v, 1) ELSE x.s

RECURSIVE TextLessEq(_, _)
\* the BINARY collation: texts compare character code by character code
TextLessEq(s, t) ==
    IF s = <<>> THEN TRUE
    ELSE IF t = <<>> THEN FALSE
    ELSE IF s[1] # t[1] THEN Code(s[1]) < Code(t[1])
    ELSE TextLessEq(Tail(s), Tail(t))

\* ORDER BY's comparison: numbers by value, every number before every text,
\* texts by the BINARY collation
LessEq(x, y) ==
    IF x.cls = "real" /\ y.cls = "real" THEN x.v <= y.v
    ELSE IF x.cls = "real" THEN TRUE
    ELSE IF y.cls = "real" THEN FALSE
    ELSE TextLessEq(x.s, y.s)

\* the orders in which the rows can come out of ORDER BY column direction
\* (rows that compare equal come out in either order)
OrderBy(rows, column, direction) ==
    LET n == Len(rows)
        turns == {p \in [1..n -> 1..n] : \A i, j \in 1..n : p[i] = p[j] => i = j}
        sorted(p) ==
            \A i \in 1..(n - 1) :
               IF direction = "DESC"
               THEN LessEq(ValueOf(rows[p[i + 1]], column), ValueOf(rows[p[i]], column))
               ELSE LessEq(ValueOf(rows[p[i]], column), ValueOf(rows[p[i + 1]], column))
    IN  {[i \in 1..n |-> rows[p[i]]] : p \in {q \in turns : sorted(q)}}

\* rows.reverse()
Reverse(rows) == [i \in 1..Len(rows) |-> rows[Len(rows) + 1 - i]]

\* the place of the word ORDER in a query text, 0 if it has none
OrderAt(text) ==
    IF \E i \in 1..Len(text) : text[i] = "ORDER"
    THEN CHOOSE i \in 1..Len(text) : text[i] = "ORDER"
    ELSE 0

\* db_cursor.execute(query, values) and fetchall() for the SELECT statements the
\* listings build.  A query text is the sequence of its words:
\*   SELECT * FROM table [WHERE column LIKE ? {OR column LIKE ?}]
\*                       [ORDER BY column [ASC | DESC]]
\* Without ORDER BY the table is scanned in rowid order, the order of insertion.
\* The result is the set of the row sequences fetchall() can return.
Execute(db, text, values) ==
    LET table == db[text[4]]
        where == Len(text) >= 5 /\ text[5] = "WHERE"
        matches(row) ==
            where => \E k \in 1..Len(values) :
                        like(values[k], TextOf(ValueOf(row, text[4 * k + 2])))
        selected == SelectSeq(table, matches)
        at == OrderAt(text)
    IN  IF at = 0 THEN {selected}
        ELSE OrderBy(selected, text[at + 2],
                     IF Len(text) >= at + 3 THEN text[at + 3] ELSE "ASC")

-----------------------------------------------------------------------------
(* The listings' query construction *)

\* sort_from_string of both listings
sort_from_string(sort_from) ==
    CASE sort_from = "Low - High" -> <<"ASC">>
      [] sort_from = "High - Low" -> <<"DESC">>
      [] OTHER -> <<>>

\* '%' + search_term + '%'
Wildcard(search_term) == <<"%">> \o search_term \o <<"%">>

\* a WHERE clause also for the empty search term
customer_search_string_always(search_term) ==
    <<"WHERE", "name", "LIKE", "?", "OR", "account", "LIKE", "?">>

\* display_customers: search_string
customer_search_string(search_term) ==
    IF search_term # <<>>
    THEN <<"WHERE", "name", "LIKE", "?", "OR", "account", "LIKE", "?">>
    ELSE <<>>

\* display_customers: sort_string
customer_sort_string(sort_by, sort_from) ==
    CASE sort_by = "Default" -> <<>>
      [] sort_by = "Account" -> <<"ORDER", "BY", "account">> \o sort_from_string(sort_from)
      [] sort_by = "Name" -> <<"ORDER", "BY", "name">> \o sort_from_string(sort_from)
      [] sort_by = "Balance" -> <<"ORDER", "BY", "balance">> \o sort_from_string(sort_from)
      [] OTHER -> <<>>

\* reverse set whatever the direction
customer_reverse_always(sort_by, sort_from) == sort_by = "Default"

\* display_customers: reverse
customer_reverse(sort_by, sort_from) ==
    sort_by = "Default" /\ sort_from_string(sort_from) = <<"DESC">>

\* display_customers: query
customer_query(search_term, sort_by, sort_from) ==
    <<"SELECT", "*", "FROM", "Customers">>
        \o customer_search_string(search_term) \o customer_sort_string(sort_by, sort_from)

\* display_customers: the values handed to execute
customer_values(search_term) ==
    IF customer_search_string(search_term) # <<>>
    THEN <<Wildcard(search_term), Wildcard(search_term)>>
    ELSE <<>>

\* display_transactions: search_string
transaction_search_string(search_term) ==
    IF search_term # <<>>
    THEN <<"WHERE", "number", "LIKE", "?", "OR", "account", "LIKE", "?",
           "OR", "date", "LIKE", "?">>
    ELSE <<>>

\* display_transactions: sort_string
transaction_sort_string(sort_by, sort_from) ==
    CASE sort_by = "Number" -> <<"ORDER", "BY", "number">> \o sort_from_string(sort_from)
      [] sort_by = "Account" -> <<"ORDER", "BY", "account">> \o sort_from_string(sort_from)
      [] sort_by = "Date" -> <<"ORDER", "BY", "date">> \o sort_from_string(sort_from)
      [] sort_by = "Amount" -> <<"ORDER", "BY", "amount">> \o sort_from_string(sort_from)
      [] OTHER -> <<>>

\* display_transactions: query
transaction_query(search_term, sort_by, sort_from) ==
    <<"SELECT", "*", "FROM", "Transactions">>
        \o transaction_search_string(search_term)
        \o transaction_sort_string(sort_by, sort_from)

\* display_transactions: the values handed to execute
transaction_values(search_term) ==
    IF transaction_search_string(search_term) # <<>>
    THEN <<Wildcard(search_term), Wildcard(search_term), Wildcard(search_term)>>
    ELSE <<>>

-----------------------------------------------------------------------------
(* What a call delivers, and the history of the stored accounts *)

\* every handler is declared -> None and ends without a return value
None == [kind |-> "None", value |-> <<>>]

\* the call is still running
Running == [kind |-> "running", value |-> <<>>]

\* sql.connect raised outside the try block: the exception reaches the caller
Exception == [kind |-> "exception", value |-> <<>>]

NoLocal == [account |-> <<>>, name |-> PyStr(<<>>), balance |-> PyFloat(0)]

\* history of account a, opened by a committed INSERT: the balance add_customer
\* was given, as float() reads it, and the signed sum of the amounts, as
\* float() reads them, of the committed transact calls on it since
Opened(h, account, balance) ==
    [a \in DOMAIN h \cup {account} |->
        IF a = account THEN [opening |-> FloatOf(balance), net |-> 0] ELSE h[a]]

Closed(h, account) == [a \in DOMAIN h \ {account} |-> h[a]]

Applied(h, account, amount, DC) ==
    [a \in DOMAIN h |->
        IF a = account
        THEN [h[a] EXCEPT !.net = IF DC = "D" THEN @ + FloatOf(amount)
                                              ELSE @ - FloatOf(amount)]
        ELSE h[a]]

\* no listing has executed a SELECT
NoQuery == [text |-> <<>>, values |-> <<>>]

\* transact holds no connection
NoConnection ==
    [at |-> "closed", ok |-> TRUE,
     db |-> [Customers |-> <<>>, Transactions |-> <<>>, sqlite_sequence |-> 0],
     account |-> <<>>, date |-> [year |-> 0, month |-> 0, day |-> 0],
     amount |-> PyStr(<<>>), DC |-> ""]

-----------------------------------------------------------------------------
(* Handlers *)

\* the process has started on a new database file: the schema is created and
\* the panes show the two empty tables
Init ==
    /\ Customers = <<>>
    /\ Transactions = <<>>
    /\ sqlite_sequence = 0
    /\ pc = "idle"
    /\ local = NoLocal
    /\ returned = None
    /\ log = {}
    /\ ledger = <<>>
    /\ calls = 0
    /\ sqlite_master = objects
    /\ customer_tree = <<>>
    /\ transaction_tree = <<>>
    /\ query = [text |-> transaction_query(<<>>, "Number", "High - Low"), values |-> <<>>]
    /\ db_connection = NoConnection

\* a record of the logger: its level and text, and the account it names
Record(msg, account) == [msg |-> msg, account |-> account]

\* the texts of the records of the current / last call
Logged == {r.msg : r \in log}

\* a menu command calls a handler
Called ==
    /\ pc = "idle"
    /\ calls < MaxCalls
    /\ calls' = calls + 1
    /\ UNCHANGED panes

\* a call that ends before it opens a connection
Rejected(message) ==
    /\ log' = {Record(message, <<>>)}
    /\ returned' = None
    /\ UNCHANGED <<Customers, Transactions, sqlite_sequence, pc, local, ledger>>

\* sql.connect(DB) raises: nothing of the with block runs
ConnectFailed ==
    /\ returned' = Exception
    /\ pc' = "idle"
    /\ local' = NoLocal
    /\ UNCHANGED <<Customers, Transactions, sqlite_sequence, ledger>>

\* the connection's outcome becomes the stored state
Stored(end) ==
    /\ Customers' = end.db.Customers
    /\ Transactions' = end.db.Transactions
    /\ sqlite_sequence' = end.db.sqlite_sequence

\* add_customer up to the first generated identifier (lines 114-128)
add_customer(name, balance) ==
    /\ Called
    /\ IF validate_customer_name(name) = "TypeError"
       THEN Rejected("ERROR not a valid string")
       ELSE IF validate_customer_name(name) = "ValueError"
       THEN Rejected("ERROR Name cannot exceed 30 characters")
       ELSE IF validate_amount(balance) = "TypeError"
       THEN Rejected("ERROR not a valid float")
       ELSE \E account \in generate_random_account_number :
               /\ pc' = "add_customer"
               /\ local' = [account |-> account, name |-> name, balance |-> balance]
               /\ returned' = Running
               /\ log' = {}
               /\ UNCHANGED <<Customers, Transactions, sqlite_sequence, ledger>>

\* one turn of the while loop that finds the identifier in use (lines 129-132)
add_customer_retry ==
    /\ pc = "add_customer"
    /\ account_exists(local.account)
    /\ \E account \in generate_random_account_number :
          local' = [local EXCEPT !.account = account]
    /\ log' = log \cup {Record("DEBUG Duplicate hit", <<>>)}
    /\ UNCHANGED <<Customers, Transactions, sqlite_sequence, pc, returned, ledger, calls>>
    /\ UNCHANGED panes

\* the loop's break and the INSERT (lines 133-149)
add_customer_insert ==
    /\ pc = "add_customer"
    /\ ~account_exists(local.account)
    /\ UNCHANGED <<calls, panes>>
    /\ \E fault \in Faults :
       IF fault = "connect"
       THEN ConnectFailed /\ log' = log
       ELSE LET insert == Step(fault = "execute", database,
                               ExecInsertCustomer(database, local.account,
                                                  local.name, local.balance))
                end == Finish(database, insert, fault = "commit")
            IN  /\ Stored(end)
                /\ log' = log \cup (IF insert.ok
                                    THEN {Record("INFO Added", local.account)}
                                    ELSE {})
                              \cup (IF end.ok
                                    THEN {}
                                    ELSE {Record("ERROR Failed to add account",
                                                 local.account)})
                /\ ledger' = IF end.ok
                             THEN Opened(ledger, local.account, local.balance)
                             ELSE ledger
                /\ returned' = None
                /\ pc' = "idle"
                /\ local' = NoLocal

\* update_customer (lines 151-178)
update_customer(account, new_name) ==
    /\ Called
    /\ IF validate_customer_name(new_name) = "TypeError"
       THEN Rejected("ERROR not a valid string")
       ELSE IF validate_customer_name(new_name) = "ValueError"
       THEN Rejected("ERROR Name cannot exceed 30 characters")
       ELSE \E fault \in Faults :
       IF fault = "connect"
       THEN ConnectFailed /\ log' = {}
       ELSE LET update == Step(fault = "execute", database,
                               ExecUpdateName(database, new_name, account))
                end == Finish(database, update, fault = "commit")
            IN  /\ Stored(end)
                /\ log' = (IF update.ok THEN {Record("INFO name updated", account)} ELSE {})
                            \cup (IF end.ok
                                  THEN {}
                                  ELSE {Record("ERROR Failed to update account", account)})
                /\ returned' = None
                /\ UNCHANGED <<pc, local, ledger>>

\* delete_customer (lines 180-199)
delete_customer(account) ==
    /\ Called
    /\ \E fault \in Faults :
       IF fault = "connect"
       THEN ConnectFailed /\ log' = {}
       ELSE LET delete == Step(fault = "execute", database,
                               ExecDeleteCustomer(database, account))
                end == Finish(database, delete, fault = "commit")
            IN  /\ Stored(end)
                /\ log' = (IF delete.ok THEN {Record("INFO deleted", account)} ELSE {})
                            \cup (IF end.ok
                                  THEN {}
                                  ELSE {Record("ERROR Failed to delete account", account)})
                /\ ledger' = IF end.ok THEN Closed(ledger, account) ELSE ledger
                /\ returned' = None
                /\ UNCHANGED <<pc, local>>

\* transact (lines 201-240)
transact(account, date, amount, DC) ==
    /\ Called
    /\ IF validate_amount(amount) = "TypeError"
       THEN Rejected("ERROR not a valid float")
       ELSE \E fault \in TransactFaults :
       IF fault = "connect"
       THEN ConnectFailed /\ log' = {}
       ELSE LET operator == IF DC = "D" THEN "+" ELSE "-"
                update == Step(fault = "update", database,
                               ExecUpdateBalance(database, operator, amount, account))
                insert == Then(update,
                               Step(fault = "insert", update.db,
                                    ExecInsertTransaction(update.db, account, date,
                                                          amount, DC)))
                end == Finish(database, insert, fault = "commit")
            IN  /\ Stored(end)
                /\ log' = (IF update.ok
                           THEN {Record(IF DC = "D" THEN "INFO debited from"
                                                    ELSE "INFO credited to", account)}
                           ELSE {})
                            \cup (IF insert.ok
                                  THEN {Record("DEBUG transaction saved", account)}
                                  ELSE {})
                            \cup (IF end.ok
                                  THEN {}
                                  ELSE {Record("ERROR Failed to load transaction", <<>>)})
                /\ ledger' = IF end.ok /\ account \in DOMAIN ledger
                             THEN Applied(ledger, account, amount, DC)
                             ELSE ledger
                /\ returned' = None
                /\ UNCHANGED <<pc, local>>

Next ==
    \/ \E name \in NameInputs, balance \in BalanceInputs : add_customer(name, balance)
    \/ add_customer_retry
    \/ add_customer_insert
    \/ \E account \in AccountInputs, new_name \in NameInputs :
          update_customer(account, new_name)
    \/ \E account \in AccountInputs : delete_customer(account)
    \/ \E account \in AccountInputs, date \in DateInputs, amount \in AmountInputs,
          DC \in DCInputs :
          transact(account, date, amount, DC)

Spec == Init /\ [][Next]_vars

\* a turn of the while loop in which random.choices draws an identifier that
\* is not in use
add_customer_retry_unused ==
    add_customer_retry /\ ~RowExists(Customers, local'.account)

\* random.choices draws every identifier with the same positive probability,
\* so a loop that keeps drawing draws an unused one; a call that has left the
\* loop goes on to its INSERT
LiveSpec ==
    Spec /\ WF_vars(add_customer_retry_unused) /\ WF_vars(add_customer_insert)

-----------------------------------------------------------------------------
(* A process that starts on the database file earlier processes left, and   *)
(* the listings of its panes                                                *)

\* search terms: none, a letter, a digit, and "_"
SearchInputs == {<<>>, <<"b">>, <<"9">>, <<"_">>}

\* customer_sort_by_combobox, transaction_sort_by_combobox (readonly)
CustomerSortByInputs == {"Default", "Account", "Name", "Balance"}
TransactionSortByInputs == {"Number", "Account", "Date", "Amount"}

\* customer_sort_from_combobox, transaction_sort_from_combobox (readonly)
SortFromInputs == {"Low - High", "High - Low"}

\* a listing's connection can raise when it is opened
ListingFaults == {"none", "connect"}

AccountZ == Repeat("Z", AccountNumberLength)
AccountA == Repeat("A", AccountNumberLength)
Account9 == Repeat("9", AccountNumberLength)

\* a file no process has opened yet
NewFile ==
    [master |-> {}, Customers |-> <<>>, Transactions |-> <<>>, sqlite_sequence |-> 0]

\* the file a process leaves whose CREATE_DEFAULT_TABLES raised at the
\* statement that creates Transactions
HalfCreatedFile ==
    [master |-> {schema[1], schema[2], schema[3]},
     Customers |-> <<>>, Transactions |-> <<>>, sqlite_sequence |-> 0]

\* add_customer("", 0.0) drew A...A; transact(A...A, 2024-01-01, "5", "D")
OneAccountFile ==
    [master |-> objects,
     Customers |-> <<[account |-> AccountA, name |-> <<>>, balance |-> Real(5)]>>,
     Transactions |->
        <<[number |-> 1, account |-> AccountA,
           date |-> AdaptDate([year |-> 2024, month |-> 1, day |-> 1]),
           amount |-> Real(5), DC |-> "D"]>>,
     sqlite_sequence |-> 1]

\* add_customer("B", 5.0) drew Z...Z, add_customer("b") drew A...A,
\* add_customer("a_") drew 9...9; transact(Z...Z, 2024-01-02, "50", "D"),
\* transact(A...A, 2024-01-01, "0_1", "D"),
\* transact("UNKNOWN000000A", 2024-01-01, "5", "C")
ThreeAccountsFile ==
    [master |-> objects,
     Customers |->
        <<[account |-> AccountZ, name |-> <<"B">>, balance |-> Real(55)],
          [account |-> AccountA, name |-> <<"b">>, balance |-> Real(0)],
          [account |-> Account9, name |-> <<"a", "_">>, balance |-> Real(0)]>>,
     Transactions |->
        <<[number |-> 1, account |-> AccountZ,
           date |-> AdaptDate([year |-> 2024, month |-> 1, day |-> 2]),
           amount |-> Real(50), DC |-> "D"],
          [number |-> 2, account |-> AccountA,
           date |-> AdaptDate([year |-> 2024, month |-> 1, day |-> 1]),
           amount |-> Text(<<"0", "_", "1">>), DC |-> "D"],
          [number |-> 3, account |-> UnknownAccount,
           date |-> AdaptDate([year |-> 2024, month |-> 1, day |-> 1]),
           amount |-> Real(5), DC |-> "C"]>>,
     sqlite_sequence |-> 3]

\* add_customer("") drew Z...Z, add_customer("") drew A...A
TwoNamesakesFile ==
    [master |-> objects,
     Customers |->
        <<[account |-> AccountZ, name |-> <<>>, balance |-> Real(0)],
          [account |-> AccountA, name |-> <<>>, balance |-> Real(0)]>>,
     Transactions |-> <<>>,
     sqlite_sequence |-> 0]

\* the database files the model starts a process on
DatabaseFiles ==
    {NewFile, HalfCreatedFile, OneAccountFile, ThreeAccountsFile, TwoNamesakesFile}

\* the process is about to run its module-level code on a database file
InitProcess ==
    /\ \E file \in DatabaseFiles :
          /\ sqlite_master = file.master
          /\ Customers = file.Customers
          /\ Transactions = file.Transactions
          /\ sqlite_sequence = file.sqlite_sequence
    /\ pc = "start"
    /\ local = NoLocal
    /\ returned = Running
    /\ log = {}
    /\ ledger = <<>>
    /\ calls = 0
    /\ customer_tree = <<>>
    /\ transaction_tree = <<>>
    /\ query = NoQuery
    /\ db_connection = NoConnection

\* the process ended with exit(1)
SystemExit == [kind |-> "SystemExit", value |-> <<>>]

\* the module-level code: CREATE_DEFAULT_TABLES(), then the first
\* display_customers() and display_transactions() with the comboboxes' first
\* settings (Default, Low - High; Number, High - Low) and no search term
startup ==
    /\ pc = "start"
    /\ calls' = calls + 1
    /\ UNCHANGED <<local, ledger, db_connection>>
    /\ \E fault \in StartFaults :
       IF fault = "connect"
       THEN /\ returned' = Exception
            /\ pc' = "exited"
            /\ log' = {}
            /\ UNCHANGED <<Customers, Transactions, sqlite_sequence, sqlite_master,
                           customer_tree, transaction_tree, query>>
       ELSE LET end == CREATE_DEFAULT_TABLES([master |-> sqlite_master, db |-> database],
                                             fault)
            IN  /\ sqlite_master' = end.state.master
                /\ Stored(end.state)
                /\ log' = (IF schema[1] \in end.state.master /\ fault # "customers"
                           THEN {Record("DEBUG 'Customers' table successfully created/connected", <<>>)}
                           ELSE {})
                            \cup (IF schema[4] \in end.state.master /\ fault \notin {"customers", "transactions"}
                                  THEN {Record("DEBUG 'Transactions' table successfully created/connected", <<>>)}
                                  ELSE {})
                            \cup (IF end.ok
                                  THEN {}
                                  ELSE {Record("ERROR Default tables creation failed", <<>>)})
                /\ IF end.ok
                   THEN /\ pc' = "idle"
                        /\ returned' = None
                        /\ \E rows \in Execute(end.state.db,
                                               customer_query(<<>>, "Default", "Low - High"),
                                               customer_values(<<>>)) :
                              customer_tree' =
                                 IF customer_reverse("Default", "Low - High")
                                 THEN Reverse(rows) ELSE rows
                        /\ \E rows \in Execute(end.state.db,
                                               transaction_query(<<>>, "Number", "High - Low"),
                                               transaction_values(<<>>)) :
                              transaction_tree' = rows
                        /\ query' = [text |-> transaction_query(<<>>, "Number", "High - Low"),
                                     values |-> transaction_values(<<>>)]
                   ELSE /\ pc' = exit
                        /\ returned' = SystemExit
                        /\ UNCHANGED <<customer_tree, transaction_tree, query>>

\* display_customers (lines 242-302)
display_customers(search_term, sort_by, sort_from) ==
    /\ pc = "idle"
    /\ calls < MaxCalls
    /\ calls' = calls + 1
    /\ log' = {}
    /\ UNCHANGED <<Customers, Transactions, sqlite_sequence, pc, local, ledger,
                   sqlite_master, transaction_tree, db_connection>>
    /\ \E fault \in ListingFaults :
       IF fault = "connect"
       THEN /\ customer_tree' = <<>>     \* the pane was emptied before sql.connect
            /\ returned' = Exception
            /\ UNCHANGED query
       ELSE /\ \E rows \in Execute(database,
                                   customer_query(search_term, sort_by, sort_from),
                                   customer_values(search_term)) :
                  customer_tree' =
                     IF customer_reverse(sort_by, sort_from) THEN Reverse(rows) ELSE rows
            /\ query' = [text |-> customer_query(search_term, sort_by, sort_from),
                         values |-> customer_values(search_term)]
            /\ returned' = None

\* display_transactions (lines 304-359)
display_transactions(search_term, sort_by, sort_from) ==
    /\ pc = "idle"
    /\ calls < MaxCalls
    /\ calls' = calls + 1
    /\ log' = {}
    /\ UNCHANGED <<Customers, Transactions, sqlite_sequence, pc, local, ledger,
                   sqlite_master, customer_tree, db_connection>>
    /\ \E fault \in ListingFaults :
       IF fault = "connect"
       THEN /\ transaction_tree' = <<>>  \* the pane was emptied before sql.connect
            /\ returned' = Exception
            /\ UNCHANGED query
       ELSE /\ \E rows \in Execute(database,
                                   transaction_query(search_term, sort_by, sort_from),
                                   transaction_values(search_term)) :
                  transaction_tree' = rows
            /\ query' = [text |-> transaction_query(search_term, sort_by, sort_from),
                         values |-> transaction_values(search_term)]
            /\ returned' = None

NextProcess ==
    \/ startup
    \/ Next
    \/ \E search_term \in SearchInputs, sort_by \in CustomerSortByInputs,
          sort_from \in SortFromInputs :
          display_customers(search_term, sort_by, sort_from)
    \/ \E search_term \in SearchInputs, sort_by \in TransactionSortByInputs,
          sort_from \in SortFromInputs :
          display_transactions(search_term, sort_by, sort_from)

SpecProcess == InitProcess /\ [][NextProcess]_vars

-----------------------------------------------------------------------------
(* transact statement by statement, beside a second process that lists the  *)
(* same database file                                                       *)

\* a connection that reads what another connection has not committed
ReadUncommitted(stored, working) == working

\* what a connection reads of a database on which another connection holds
\* uncommitted changes: sql.connect opens each connection on the file, and
\* the changes of a transaction reach the file at its commit
ReadCommitted(stored, working) == stored

\* the accounts and amounts of the calls of the writing process
WriterAccountInputs == {AccountA, UnknownAccount}
WriterAmountInputs == {PyStr(<<"5">>), PyStr(<<"x">>)}

\* the writing process has started on a file with an account and the reading
\* process shows that file in its panes
InitConcurrent ==
    /\ sqlite_master = OneAccountFile.master
    /\ Customers = OneAccountFile.Customers
    /\ Transactions = OneAccountFile.Transactions
    /\ sqlite_sequence = OneAccountFile.sqlite_sequence
    /\ pc = "idle"
    /\ local = NoLocal
    /\ returned = None
    /\ log = {}
    /\ ledger = <<>>
    /\ calls = 0
    /\ customer_tree = OneAccountFile.Customers
    /\ transaction_tree = Reverse(OneAccountFile.Transactions)
    /\ query = [text |-> transaction_query(<<>>, "Number", "High - Low"), values |-> <<>>]
    /\ db_connection = NoConnection

\* transact up to sql.connect (lines 211-218)
transact_connect(account, date, amount, DC) ==
    /\ pc = "idle"
    /\ calls < MaxCalls
    /\ calls' = calls + 1
    /\ UNCHANGED <<sqlite_master, customer_tree, transaction_tree, query>>
    /\ IF validate_amount(amount) = "TypeError"
       THEN Rejected("ERROR not a valid float") /\ UNCHANGED db_connection
       ELSE \E fault \in {"none", "connect"} :
               IF fault = "connect"
               THEN ConnectFailed /\ log' = {} /\ UNCHANGED db_connection
               ELSE /\ db_connection' =
                          [at |-> "update", ok |-> TRUE, db |-> database,
                           account |-> account, date |-> date, amount |-> amount,
                           DC |-> DC]
                    /\ pc' = "transact"
                    /\ returned' = Running
                    /\ log' = {}
                    /\ UNCHANGED <<Customers, Transactions, sqlite_sequence, local, ledger>>

\* the UPDATE and its log record (lines 220-227)
transact_update ==
    /\ pc = "transact"
    /\ db_connection.at = "update"
    /\ \E fails \in BOOLEAN :
          LET operator == IF db_connection.DC = "D" THEN "+" ELSE "-"
              update == Step(fails, db_connection.db,
                             ExecUpdateBalance(db_connection.db, operator,
                                               db_connection.amount,
                                               db_connection.account))
          IN  /\ db_connection' =
                    [db_connection EXCEPT !.db = update.db, !.ok = update.ok,
                                          !.at = IF update.ok THEN "insert" ELSE "except"]
              /\ log' = log \cup
                    (IF update.ok
                     THEN {Record(IF db_connection.DC = "D" THEN "INFO debited from"
                                                            ELSE "INFO credited to",
                                  db_connection.account)}
                     ELSE {})
    /\ UNCHANGED <<Customers, Transactions, sqlite_sequence, pc, local, returned, ledger,
                   calls, sqlite_master, customer_tree, transaction_tree, query>>

\* the INSERT and its log record (lines 229-235)
transact_insert ==
    /\ pc = "transact"
    /\ db_connection.at = "insert"
    /\ \E fails \in BOOLEAN :
          LET insert == Step(fails, db_connection.db,
                             ExecInsertTransaction(db_connection.db, db_connection.account,
                                                   db_connection.date, db_connection.amount,
                                                   db_connection.DC))
          IN  /\ db_connection' =
                    [db_connection EXCEPT !.db = insert.db, !.ok = insert.ok,
                                          !.at = IF insert.ok THEN "commit" ELSE "except"]
              /\ log' = log \cup
                    (IF insert.ok
                     THEN {Record("DEBUG transaction saved", db_connection.account)}
                     ELSE {})
    /\ UNCHANGED <<Customers, Transactions, sqlite_sequence, pc, local, returned, ledger,
                   calls, sqlite_master, customer_tree, transaction_tree, query>>

\* db_connection.commit() (line 237)
transact_commit ==
    /\ pc = "transact"
    /\ db_connection.at = "commit"
    /\ UNCHANGED <<local, ledger, calls, sqlite_master, customer_tree, transaction_tree,
                   query>>
    /\ \E fails \in BOOLEAN :
          IF fails
          THEN /\ db_connection' = [db_connection EXCEPT !.ok = FALSE, !.at = "except"]
               /\ UNCHANGED <<Customers, Transactions, sqlite_sequence, pc, returned, log>>
          ELSE /\ Stored(Done(Commit(db_connection.db)))
               /\ db_connection' = NoConnection
               /\ pc' = "idle"
               /\ returned' = None
               /\ log' = log

\* the except branch: rollback() and the ERROR record (lines 238-240)
transact_except ==
    /\ pc = "transact"
    /\ db_connection.at = "except"
    /\ Stored(Raised(Rollback(database, db_connection.db)))
    /\ db_connection' = NoConnection
    /\ pc' = "idle"
    /\ returned' = None
    /\ log' = log \cup {Record("ERROR Failed to load transaction", <<>>)}
    /\ UNCHANGED <<local, ledger, calls, sqlite_master, customer_tree, transaction_tree,
                   query>>

\* the database as the reading process finds it
Read == ReadCommitted(database, db_connection.db)

\* display_customers() of the reading process while transact holds its
\* connection (no search term, Default, Low - High)
reader_display_customers ==
    /\ db_connection.at # "closed"
    /\ \E rows \in Execute(Read, customer_query(<<>>, "Default", "Low - High"),
                           customer_values(<<>>)) :
          customer_tree' = rows
    /\ query' = [text |-> customer_query(<<>>, "Default", "Low - High"),
                 values |-> customer_values(<<>>)]
    /\ UNCHANGED <<Customers, Transactions, sqlite_sequence, pc, local, returned, log,
                   ledger, calls, sqlite_master, transaction_tree, db_connection>>

\* display_transactions() of the reading process while transact holds its
\* connection (no search term, Number, High - Low)
reader_display_transactions ==
    /\ db_connection.at # "closed"
    /\ \E rows \in Execute(Read, transaction_query(<<>>, "Number", "High - Low"),
                           transaction_values(<<>>)) :
          transaction_tree' = rows
    /\ query' = [text |-> transaction_query(<<>>, "Number", "High - Low"),
                 values |-> transaction_values(<<>>)]
    /\ UNCHANGED <<Customers, Transactions, sqlite_sequence, pc, local, returned, log,
                   ledger, calls, sqlite_master, customer_tree, db_connection>>

NextConcurrent ==
    \/ \E account \in WriterAccountInputs, date \in DateInputs,
          amount \in WriterAmountInputs, DC \in DCInputs :
          transact_connect(account, date, amount, DC)
    \/ transact_update
    \/ transact_insert
    \/ transact_commit
    \/ transact_except
    \/ reader_display_customers
    \/ reader_display_transactions

SpecConcurrent == InitConcurrent /\ [][NextConcurrent]_vars

-----------------------------------------------------------------------------
(* Vocabulary of the properties *)

Accounts == {Customers[i].account : i \in 1..Len(Customers)}

\* the Customers row of a stored account
RowOf(account) == Customers[CHOOSE i \in 1..Len(Customers) : Customers[i].account = account]

\* the amount a Transactions row records, read as the float it was validated as
RecordedAmount(row) ==
    IF row.amount.cls = "real" THEN row.amount.v ELSE FloatOf(PyStr(row.amount.s))

RECURSIVE SignedSum(_, _)
\* Debit +amount, Credit -amount, over the rows of an account, in commit order
SignedSum(rows, account) ==
    IF rows = <<>> THEN 0
    ELSE LET row == rows[Len(rows)]
             rest == SignedSum(SubSeq(rows, 1, Len(rows) - 1), account)
         IN  IF row.account # account THEN rest
             ELSE IF row.DC = "D" THEN rest + RecordedAmount(row)
             ELSE rest - RecordedAmount(row)

\* the records transact emits once its UPDATE has run
UpdateRan == {r \in log : r.msg \in {"INFO debited from", "INFO credited to"}}

\* the last row of Transactions
Newest(rows) == rows[Len(rows)]

\* the balance as the UPDATE of the transaction recorded by row leaves it
Adjusted(balance, row) ==
    Real(ToNumeric(balance) + (IF row.DC = "D" THEN 1 ELSE -1) * ToNumeric(row.amount))

\* some account stored before and after the step has another balance after it
SomeBalanceChanged ==
    \E i \in 1..Len(Customers), j \in 1..Len(Customers') :
        /\ Customers[i].account = Customers'[j].account
        /\ Customers[i].balance # Customers'[j].balance

-----------------------------------------------------------------------------
(* C1.  For an account created with balance 0.0, the balance after any      *)
(* sequence of successful transact calls on it equals the signed sum of the *)
(* calls' amounts: +amount for 'D', -amount for 'C'.                        *)
C1_BalanceIsSumOfCalls ==
    \A a \in Accounts :
        ledger[a].opening = 0 => RowOf(a).balance = Real(ledger[a].net)

(* C2.  I1: every Customers row has a balance equal to the signed sum of    *)
(* the Transactions rows whose account is that row's identifier.            *)
C2_BalanceIsSumOfRows ==
    \A a \in Accounts : RowOf(a).balance = Real(SignedSum(Transactions, a))

(* C3.  transact is atomic: a call that fails after its UPDATE ran and      *)
(* before its INSERT is committed leaves the balances, the Transactions     *)
(* rows and the number counter as they were; every call either changes      *)
(* nothing in the store or commits both the balance adjustment and one new  *)
(* Transactions row.                                                        *)
C3_TransactAtomic ==
    [][/\ (calls' = calls + 1 /\ UpdateRan' # {}
             /\ "ERROR Failed to load transaction" \in Logged')
          => UNCHANGED store
       /\ (Transactions' # Transactions \/ SomeBalanceChanged)
          => /\ Len(Transactions') = Len(Transactions) + 1
             /\ SubSeq(Transactions', 1, Len(Transactions)) = Transactions
             /\ Len(Customers') = Len(Customers)
             /\ \A i \in 1..Len(Customers) :
                   Customers'[i] =
                      IF Customers[i].account = Newest(Transactions').account
                      THEN [Customers[i] EXCEPT
                              !.balance = Adjusted(@, Newest(Transactions'))]
                      ELSE Customers[i]]_vars

\* a transact on a stored account was rolled back after its UPDATE had run
C3_Witness ==
    /\ "ERROR Failed to load transaction" \in Logged
    /\ \E r \in UpdateRan : r.account \in Accounts
    /\ Transactions = <<>>

(* C4.  transact on an identifier with no Customers row inserts no          *)
(* Transactions row and changes no Customers row: every Transactions row    *)
(* references a stored account at the moment it is inserted.                *)
C4_UnknownAccountRejected ==
    [][/\ \A r \in UpdateRan' :
             (calls' = calls + 1 /\ r.account \notin Accounts)
                => /\ Transactions' = Transactions
                   /\ Customers' = Customers
       /\ Len(Transactions') > Len(Transactions)
             => Newest(Transactions').account \in Accounts]_vars

(* C5.  I2: no two Customers rows share an identifier, so N stored accounts *)
(* carry N identifiers, each of exactly 15 characters of A-Z and 0-9, also  *)
(* when the generator returned an identifier already in use.                *)
C5_UniqueIdentifiers ==
    /\ \A i, j \in 1..Len(Customers) :
          Customers[i].account = Customers[j].account => i = j
    /\ Cardinality(Accounts) = Len(Customers)
    /\ \A i \in 1..Len(Customers) :
          /\ Len(Customers[i].account) = 15
          /\ \A k \in 1..Len(Customers[i].account) :
                Customers[i].account[k] \in characters

\* an account was added by a call whose generator had hit a stored identifier
C5_Witness ==
    /\ Len(Customers) = 2
    /\ {"DEBUG Duplicate hit", "INFO Added"} \subseteq Logged
    /\ pc = "idle"

(* C6.  I3: the numbers of the Transactions rows are pairwise distinct, and *)
(* a newly inserted row's number is greater than the number of every row    *)
(* inserted before it, whatever calls succeeded or failed in between.       *)
C6_NumbersIncrease ==
    [][/\ Len(Transactions') >= Len(Transactions)
       /\ \A i \in 1..Len(Transactions), j \in 1..Len(Transactions') :
             /\ j <= Len(Transactions) => Transactions'[j] = Transactions[j]
             /\ j > Len(Transactions) => Transactions'[j].number > Transactions[i].number
       /\ \A i, j \in 1..Len(Transactions') :
             Transactions'[i].number = Transactions'[j].number => i = j]_vars

\* two rows are stored, the second inserted after the first
C6_Witness ==
    /\ Len(Transactions) = 2
    /\ Transactions[1].number < Transactions[2].number

-----------------------------------------------------------------------------
\* a string longer than 30 characters
TooLong(name) == name.t = "str" /\ Len(name.s) > 30

\* a string of 0 to 30 characters
FitsName(name) == name.t = "str" /\ Len(name.s) \in 0..30

\* the ERROR records of the handlers' except branches
ExceptRecords ==
    {"ERROR Failed to add account", "ERROR Failed to update account",
     "ERROR Failed to delete account", "ERROR Failed to load transaction"}

(* C7.  Validation precedes mutation: add_customer and update_customer with *)
(* a name longer than 30 characters, and add_customer and transact with an  *)
(* amount float() does not convert, end at once and leave Customers and     *)
(* Transactions unchanged; names of 0 to 30 characters pass validation.     *)
C7_ValidationBeforeMutation ==
    [][/\ \A name \in NameInputs, balance \in BalanceInputs :
             ((TooLong(name) \/ (FitsName(name) /\ ~FloatConvertible(balance)))
                 /\ add_customer(name, balance))
                => (UNCHANGED store /\ pc' = "idle" /\ returned' = None)
       /\ \A account \in AccountInputs, new_name \in NameInputs :
             (TooLong(new_name) /\ update_customer(account, new_name))
                => (UNCHANGED store /\ returned' = None)
       /\ \A account \in AccountInputs, date \in DateInputs, amount \in AmountInputs,
             DC \in DCInputs :
             (~FloatConvertible(amount) /\ transact(account, date, amount, DC))
                => (UNCHANGED store /\ returned' = None)
       /\ \A name \in NameInputs :
             FitsName(name) => validate_customer_name(name) = "ok"]_vars

\* a call was turned down for its name while an account was stored
C7_Witness ==
    /\ Logged = {"ERROR Name cannot exceed 30 characters"}
    /\ Customers # <<>>

\* the store raised sql.Error during the step
StoreRaised == Logged' \cap ExceptRecords # {} \/ returned' = Exception

(* C8.  update_customer with a valid name and an identifier that has no     *)
(* Customers row ends as a success (when the store raises no error) and     *)
(* leaves every Customers row and every Transactions row unchanged.         *)
C8_RenameAbsentIsNoOp ==
    [][\A account \in AccountInputs, new_name \in NameInputs :
          (FitsName(new_name) /\ ~account_exists(account)
              /\ update_customer(account, new_name))
             => /\ UNCHANGED store
                /\ ~StoreRaised => (returned' = None /\ Logged' = {"INFO name updated"})
       ]_vars

\* a rename of an identifier that is not stored succeeded beside a stored row
C8_Witness ==
    /\ \E r \in log : r.msg = "INFO name updated" /\ r.account \notin Accounts
    /\ Logged \cap ExceptRecords = {}
    /\ Customers # <<>>

-----------------------------------------------------------------------------
(* Vocabulary of the listings' properties *)

\* the column a sort key names
ColumnOf(sort_by) ==
    CASE sort_by = "Account" -> "account"
      [] sort_by = "Name" -> "name"
      [] sort_by = "Balance" -> "balance"
      [] sort_by = "Number" -> "number"
      [] sort_by = "Date" -> "date"
      [] sort_by = "Amount" -> "amount"

\* the field of a row as the ledger reads it: an amount or a balance is the
\* number float() makes of it, every other field is the stored value
FieldOf(row, column) ==
    CASE column = "amount" -> Real(RecordedAmount(row))
      [] column = "balance" ->
            IF row.balance.cls = "real" THEN row.balance
            ELSE Real(FloatOf(PyStr(row.balance.s)))
      [] OTHER -> ValueOf(row, column)

\* rows are non-decreasing (Low - High) or non-increasing (High - Low) on a field
Ordered(rows, column, sort_from) ==
    \A i \in 1..(Len(rows) - 1) :
       IF sort_from = "High - Low"
       THEN LessEq(FieldOf(rows[i + 1], column), FieldOf(rows[i], column))
       ELSE LessEq(FieldOf(rows[i], column), FieldOf(rows[i + 1], column))

\* rows holds every row of table exactly once
EveryRowOnce(rows, table) ==
    /\ Len(rows) = Len(table)
    /\ \A i \in 1..Len(table) : \E j \in 1..Len(rows) : rows[j] = table[i]
    /\ \A i, j \in 1..Len(rows) : rows[i] = rows[j] => i = j

\* the rows of Customers the listing's WHERE clause keeps, in stored order
Kept(search_term) ==
    SelectSeq(Customers,
              LAMBDA row : \/ search_term = <<>>
                           \/ like(Wildcard(search_term), row.name)
                           \/ like(Wildcard(search_term), row.account))

(* C11.  With no search term, display_customers sorted by Account, Name or  *)
(* Balance and display_transactions sorted by Number, Account, Date or      *)
(* Amount show every stored row exactly once, non-decreasing on the chosen  *)
(* field for Low - High and non-increasing for High - Low.                  *)
C11_SortedListings ==
    [][/\ \A sort_by \in CustomerSortByInputs \ {"Default"}, sort_from \in SortFromInputs :
             (display_customers(<<>>, sort_by, sort_from) /\ returned' = None)
                => /\ EveryRowOnce(customer_tree', Customers)
                   /\ Ordered(customer_tree', ColumnOf(sort_by), sort_from)
       /\ \A sort_by \in TransactionSortByInputs, sort_from \in SortFromInputs :
             (display_transactions(<<>>, sort_by, sort_from) /\ returned' = None)
                => /\ EveryRowOnce(transaction_tree', Transactions)
                   /\ Ordered(transaction_tree', ColumnOf(sort_by), sort_from)]_vars

(* C12.  display_customers with sort key Default shows the stored accounts  *)
(* the search term keeps in the order of their insertion for Low - High and *)
(* in exactly the reverse of that order for High - Low, whatever accounts   *)
(* were created and deleted before.                                         *)
C12_DefaultIsInsertionOrder ==
    [][\A search_term \in SearchInputs, sort_from \in SortFromInputs :
          (display_customers(search_term, "Default", sort_from) /\ returned' = None)
             => customer_tree' = IF sort_from = "High - Low"
                                 THEN Reverse(Kept(search_term))
                                 ELSE Kept(search_term)]_vars

\* the pane shows two of three stored accounts, the later inserted one first
C12_Witness ==
    /\ Len(Customers) = 3
    /\ customer_tree = <<Customers[2], Customers[1]>>
    /\ query.values = <<Wildcard(<<"b">>), Wildcard(<<"b">>)>>

\* some identifier the generator can return is not in use
SomeUnused ==
    \E account \in generate_random_account_number : ~RowExists(Customers, account)

\* the add_customer call has ended with its row stored, or with an error of
\* the store
AddEnded ==
    /\ pc = "idle"
    /\ \/ \E r \in log : r.msg = "INFO Added" /\ r.account \in Accounts
       \/ Logged \cap ExceptRecords # {}
       \/ returned = Exception

(* C13.  add_customer with valid inputs terminates: the loop draws again    *)
(* only while the identifier it holds is stored and is left as soon as the  *)
(* identifier is not stored, so with a fair generator and some unused       *)
(* identifier the call reaches its INSERT and ends, with its row stored     *)
(* unless the store raises.                                                 *)
C13_AddTerminates ==
    /\ [][/\ add_customer_retry => RowExists(Customers, local.account)
          /\ (pc = "add_customer" /\ ~RowExists(Customers, local.account))
                => (pc' = "idle" /\ UNCHANGED calls)]_vars
    /\ (pc = "add_customer" /\ SomeUnused) ~> AddEnded

\* a call ended with its row stored after the generator had hit an
\* identifier in use
C13_Witness ==
    /\ pc = "idle"
    /\ \E r \in log : r.msg = "INFO Added" /\ r.account \in Accounts
    /\ "DEBUG Duplicate hit" \in Logged
    /\ Logged \cap ExceptRecords = {}

\* Customers without the row of an account
Without(account) == SelectSeq(Customers, LAMBDA row : row.account # account)

C15_TransactionsAppendOnly ==
    [][/\ Len(Transactions') \in {Len(Transactions), Len(Transactions) + 1}
       /\ \A i \in 1..Len(Transactions) : Transactions'[i] = Transactions[i]
       /\ Len(Transactions') > Len(Transactions)
             => /\ "DEBUG transaction saved" \in Logged'
                /\ Record("DEBUG transaction saved", Newest(Transactions').account) \in log'
                /\ calls' = calls + 1]_vars

\* three rows are still stored after the account of one of them was deleted
C15_Witness ==
    /\ Len(Transactions) = 3
    /\ \E r \in log :
          /\ r.msg = "INFO deleted"
          /\ RowExists(Transactions, r.account)
          /\ r.account \notin Accounts
    /\ Len(Customers) = 2

\* CREATE_DEFAULT_TABLES raised: its except branch logged the error, or
\* sql.connect raised and the traceback of the uncaught exception is printed
StartFailed ==
    \/ "ERROR Default tables creation failed" \in Logged'
    \/ returned' = Exception

(* C17.  If the creation of the schema fails when the process starts, the   *)
(* failure is reported (the ERROR record of the except branch, or the       *)
(* traceback of the exception sql.connect raised) and the process exits: no *)
(* handler and no listing runs afterwards.                                  *)
C17_NoCallAfterStartFailure ==
    [][/\ (pc = "start" /\ StartFailed)
             => /\ pc' = "exited"
                /\ returned' \in {SystemExit, Exception}
                /\ UNCHANGED <<customer_tree, transaction_tree, query>>
       /\ pc = "start" => (StartFailed \/ (pc' = "idle" /\ sqlite_master' = objects))
       /\ pc # "exited"]_vars

\* the process has exited after the statement that creates Transactions raised
C17_Witness ==
    /\ pc = "exited"
    /\ "ERROR Default tables creation failed" \in Logged
    /\ returned = SystemExit
    /\ schema[1] \in sqlite_master
    /\ schema[4] \notin sqlite_master

\* the database file as CREATE_DEFAULT_TABLES reads and writes it
File == [master |-> sqlite_master, db |-> database]

(* C18.  CREATE_DEFAULT_TABLES is idempotent: on a database that holds the  *)
(* Customers and Transactions tables it succeeds and leaves every Customers *)
(* row, every Transactions row and the AUTOINCREMENT counter as they were,  *)
(* and running it a second time changes nothing the first run left.         *)
C18_SchemaIdempotent ==
    [][pc = "start"
          => /\ schema[1] \in sqlite_master => Customers' = Customers
             /\ schema[4] \in sqlite_master
                   => (Transactions' = Transactions /\ sqlite_sequence' = sqlite_sequence)
             /\ (objects \subseteq sqlite_master /\ ~StartFailed)
                   => (UNCHANGED <<store, sqlite_master>> /\ pc' = "idle")
             /\ LET once == CREATE_DEFAULT_TABLES(File, "none")
                    twice == CREATE_DEFAULT_TABLES(once.state, "none")
                IN  /\ once.ok
                    /\ twice = once
                    /\ ~StartFailed
                          => (sqlite_master' = once.state.master
                              /\ database' = once.state.db)]_vars

\* the process has started on a file that held rows, and they are still there
C18_Witness ==
    /\ pc = "idle"
    /\ calls = 1
    /\ Len(Customers) = 3
    /\ Len(Transactions) = 3
    /\ sqlite_sequence = 3

\* text contains term as a contiguous substring, letter case aside
Contains(text, term) ==
    \E i \in 0..(Len(text) - Len(term)) :
       \A k \in 1..Len(term) : Fold(text[i + k]) = Fold(term[k])

\* the rows among which the rows of a pane are exactly those that satisfy keep
ExactlyThose(pane, table, keep(_)) ==
    /\ \A i \in 1..Len(pane) : \E j \in 1..Len(table) : table[j] = pane[i] /\ keep(table[j])
    /\ \A j \in 1..Len(table) : keep(table[j]) => \E i \in 1..Len(pane) : pane[i] = table[j]
    /\ \A i, j \in 1..Len(pane) : pane[i] = pane[j] => i = j

(* C19.  For every search term display_customers shows exactly the          *)
(* accounts whose identifier or name contains the term as a contiguous      *)
(* substring, letter case aside (all accounts for the empty term), and      *)
(* display_transactions exactly the transactions whose number, account or   *)
(* date, written as text, contains it: every character of the term stands   *)
(* for itself.                                                              *)
C19_SearchTermIsLiteral ==
    [][\A search_term \in SearchInputs, sort_from \in SortFromInputs :
          /\ \A sort_by \in CustomerSortByInputs :
                (display_customers(search_term, sort_by, sort_from) /\ returned' = None)
                   => ExactlyThose(customer_tree', Customers,
                                   LAMBDA row : \/ Contains(row.account, search_term)
                                                \/ Contains(row.name, search_term))
          /\ \A sort_by \in TransactionSortByInputs :
                (display_transactions(search_term, sort_by, sort_from) /\ returned' = None)
                   => ExactlyThose(transaction_tree', Transactions,
                                   LAMBDA row : \/ Contains(DecimalDigits(row.number, 1),
                                                            search_term)
                                                \/ Contains(row.account, search_term)
                                                \/ Contains(row.date, search_term))]_vars

\* the words of the SELECT statements of the listings
Words ==
    {"SELECT", "*", "FROM", "Customers", "Transactions", "WHERE", "LIKE", "?", "OR",
     "ORDER", "BY", "ASC", "DESC", "number", "account", "name", "date", "balance", "amount"}

\* the words of a query text
WordsOf(text) == {text[i] : i \in 1..Len(text)}

\* the number of parameter marks of a query text
Marks(text) == Cardinality({i \in 1..Len(text) : text[i] = "?"})

\* some search term that is not empty
SomeTerm == <<"x">>

(* C20.  The query text of a listing depends on the search term only        *)
(* through its being empty or not: two non-empty terms give the same text,  *)
(* the term reaches execute only as bound values (one per parameter mark),  *)
(* the text has no WHERE clause for the empty term and no ORDER BY clause   *)
(* for the sort key Default.                                                *)
C20_QueryTextIgnoresTheTerm ==
    [][\A search_term \in SearchInputs, sort_from \in SortFromInputs :
          /\ \A sort_by \in CustomerSortByInputs :
                (display_customers(search_term, sort_by, sort_from) /\ returned' = None)
                   => /\ query'.text =
                            customer_query(IF search_term = <<>> THEN <<>> ELSE SomeTerm,
                                           sort_by, sort_from)
                      /\ WordsOf(query'.text) \subseteq Words
                      /\ "WHERE" \in WordsOf(query'.text) <=> search_term # <<>>
                      /\ "ORDER" \in WordsOf(query'.text) <=> sort_by # "Default"
                      /\ Len(query'.values) = Marks(query'.text)
                      /\ \A k \in 1..Len(query'.values) :
                            query'.values[k] = Wildcard(search_term)
          /\ \A sort_by \in TransactionSortByInputs :
                (display_transactions(search_term, sort_by, sort_from) /\ returned' = None)
                   => /\ query'.text =
                            transaction_query(IF search_term = <<>> THEN <<>> ELSE SomeTerm,
                                              sort_by, sort_from)
                      /\ WordsOf(query'.text) \subseteq Words
                      /\ "WHERE" \in WordsOf(query'.text) <=> search_term # <<>>
                      /\ "ORDER" \in WordsOf(query'.text)
                      /\ Len(query'.values) = Marks(query'.text)
                      /\ \A k \in 1..Len(query'.values) :
                            query'.values[k] = Wildcard(search_term)]_vars

\* a listing with a search term and a sort key has put rows into its pane
C20_Witness ==
    /\ query.values = <<Wildcard(<<"9">>), Wildcard(<<"9">>)>>
    /\ {"WHERE", "ORDER"} \subseteq WordsOf(query.text)
    /\ Len(customer_tree) = 1
    /\ Len(Customers) = 3

\* transact has run statements whose changes are not committed
Uncommitted == db_connection.at # "closed" /\ db_connection.db # database

(* C16.  A process that lists the database while transact runs in another  *)
(* process never sees the balance adjusted without the Transactions row, or *)
(* the row without the adjusted balance: each listing shows the committed   *)
(* tables, which hold neither effect until the commit and both from then    *)
(* on.                                                                      *)
C16_ReaderSeesNoPartialState ==
    [][/\ reader_display_customers => customer_tree' = Customers
       /\ reader_display_transactions => transaction_tree' = Reverse(Transactions)
       /\ (Customers' # Customers \/ Transactions' # Transactions)
             => /\ db_connection.at = "commit"
                /\ Transactions' = Append(Transactions, Newest(Transactions'))
                /\ Newest(Transactions').account = db_connection.account
                /\ Customers' =
                      [i \in 1..Len(Customers) |->
                          IF Customers[i].account = db_connection.account
                          THEN [Customers[i] EXCEPT
                                  !.balance = Adjusted(@, Newest(Transactions'))]
                          ELSE Customers[i]]]_vars

\* during the second transact, after its UPDATE has run, the panes of the
\* reading process show the tables as the first transact committed them
C16_Witness ==
    /\ calls = 2
    /\ Uncommitted
    /\ db_connection.at \in {"insert", "commit"}
    /\ db_connection.db.Customers # Customers
    /\ Len(Transactions) = 2
    /\ customer_tree = Customers
    /\ transaction_tree = Reverse(Transactions)

-----------------------------------------------------------------------------
\* the identifiers of the rows, in stored order
Identifiers(rows) == [i \in 1..Len(rows) |-> rows[i].account]

\* Customers with the name of one account replaced
Renamed(account, new_name) ==
    [i \in 1..Len(Customers) |->
        IF Customers[i].account = account
        THEN [Customers[i] EXCEPT !.name = new_name.s]
        ELSE Customers[i]]

\* the step is a transact on the account whose UPDATE and INSERT were committed
CommittedTransactOn(account) ==
    /\ calls' = calls + 1
    /\ Record("DEBUG transaction saved", account) \in log'
    /\ Logged' \cap ExceptRecords = {}
    /\ Transactions' = Append(Transactions, Newest(Transactions'))
    /\ Newest(Transactions').account = account

(* C21.  update_customer with a valid name on a stored account changes only *)
(* that account's name: its identifier, its balance, every other account    *)
(* and every Transactions row stay as they were.  Over all steps a stored   *)
(* account keeps its identifier, and its balance changes only in a step     *)
(* that is a committed transact on that identifier.                         *)
C21_AccountFieldsFrame ==
    [][/\ \A account \in AccountInputs, new_name \in NameInputs :
             update_customer(account, new_name)
                => /\ Transactions' = Transactions
                   /\ sqlite_sequence' = sqlite_sequence
                   /\ Customers' \in {Customers, Renamed(account, new_name)}
                   /\ (FitsName(new_name) /\ ~StoreRaised)
                         => Customers' = Renamed(account, new_name)
       /\ \/ Identifiers(Customers') = Identifiers(Customers)
          \/ \E a \in generate_random_account_number \ Accounts :
                Identifiers(Customers') = Append(Identifiers(Customers), a)
          \/ \E a \in Accounts :
                Identifiers(Customers') =
                   SelectSeq(Identifiers(Customers), LAMBDA x : x # a)
       /\ \A i \in 1..Len(Customers), j \in 1..Len(Customers') :
             (Customers[i].account = Customers'[j].account
                 /\ Customers[i].balance # Customers'[j].balance)
                => /\ CommittedTransactOn(Customers[i].account)
                   /\ Customers'[j].balance =
                         Adjusted(Customers[i].balance, Newest(Transactions'))]_vars

\* a stored account with a balance and a Transactions row has just been
\* renamed
C21_Witness ==
    /\ Logged = {"INFO name updated"}
    /\ \E r \in log :
          /\ r.account \in Accounts
          /\ RowOf(r.account).name = Repeat("x", MaxNameLen)
          /\ RowOf(r.account).balance = Real(5)
          /\ RowExists(Transactions, r.account)

-----------------------------------------------------------------------------
\* the place of a stored row in Customers, the order of insertion
Place(row) == CHOOSE i \in 1..Len(Customers) : Customers[i] = row

\* rows that are equal on a field come in the order of their insertion
TiesInInsertionOrder(rows, column) ==
    \A i, j \in 1..Len(rows) :
       (i < j /\ FieldOf(rows[i], column) = FieldOf(rows[j], column))
          => Place(rows[i]) < Place(rows[j])

(* C22.  When display_customers sorts by Account, Name or Balance, Low -     *)
(* High or High - Low, two accounts that are equal on the sort field are    *)
(* shown in the order of their insertion.                                   *)
C22_TiesInInsertionOrder ==
    [][\A search_term \in SearchInputs, sort_by \in CustomerSortByInputs \ {"Default"},
          sort_from \in SortFromInputs :
          (display_customers(search_term, sort_by, sort_from) /\ returned' = None)
             => TiesInInsertionOrder(customer_tree', ColumnOf(sort_by))]_vars

-----------------------------------------------------------------------------
\* the direction the call in progress was given is neither 'D' nor 'C'
OtherDirection == db_connection.DC \notin {"D", "C"}

\* Customers with the amount of the call in progress subtracted from the
\* balance of its account
Subtracted ==
    [i \in 1..Len(Customers) |->
        IF Customers[i].account = db_connection.account
        THEN [Customers[i] EXCEPT
                !.balance = Arith("-", @, Bind(db_connection.amount))]
        ELSE Customers[i]]

(* C23.  Every Transactions row has DC 'D' or 'C' in every state.  A        *)
(* transact given any other DC first subtracts the amount from the balance, *)
(* then has its INSERT rejected by the CHECK constraint, and ends with the  *)
(* balances and the Transactions rows as they were before the call.         *)
C23_DirectionIsDebitOrCredit ==
    [][/\ \A i \in 1..Len(Transactions) : Transactions[i].DC \in {"D", "C"}
       /\ \A i \in 1..Len(Transactions') : Transactions'[i].DC \in {"D", "C"}
       /\ (OtherDirection /\ transact_update /\ db_connection'.ok)
             => /\ db_connection'.db.Customers = Subtracted
                /\ db_connection'.db.Transactions = Transactions
       /\ (OtherDirection /\ transact_insert)
             => /\ db_connection'.at = "except"
                /\ db_connection'.db.Transactions = Transactions
       /\ (OtherDirection /\ db_connection.at # "closed")
             => /\ ~transact_commit
                /\ UNCHANGED store]_vars

-----------------------------------------------------------------------------
\* the rows carry the numbers 1, 2, ... in stored order
NumberedFromOne(rows) == \A i \in 1..Len(rows) : rows[i].number = i

(* C24.  The numbers of the Transactions rows are exactly 1..k, k the       *)
(* number of committed transact calls: each committed call adds one row,    *)
(* numbered one more than the rows before it, no other step adds or removes *)
(* a row, and a call that fails or is rolled back leaves the counter where  *)
(* it was, so that the next committed call receives k + 1.                  *)
C24_NumbersGapless ==
    [][/\ NumberedFromOne(Transactions')
       /\ NextNumber(database') = Len(Transactions') + 1
       /\ Transactions' # Transactions => transact_commit
       /\ (transact_commit /\ db_connection'.at = "closed")
             => /\ Len(Transactions') = Len(Transactions) + 1
                /\ Newest(Transactions').number = Len(Transactions) + 1
       /\ (transact_except \/ (transact_commit /\ db_connection'.at # "closed"))
             => /\ Transactions' = Transactions
                /\ sqlite_sequence' = sqlite_sequence]_vars

\* the second call has committed the row numbered 2 after a first call that
\* committed nothing
C24_Witness ==
    /\ calls = 2
    /\ pc = "idle"
    /\ returned = None
    /\ "DEBUG transaction saved" \in Logged
    /\ Logged \cap ExceptRecords = {}
    /\ Len(Transactions) = 2
    /\ Newest(Transactions).number = 2

====
